---- MODULE Spec2Model ----
(***************************************************************************)
(* State-machine model of MT4Wrapper.cpp: the process-wide session         *)
(* (g_pFactory, g_pManager, g_initialized, g_lastError) and the exported   *)
(* MT4_* entry points.  Each entry point is one action; the calls it makes *)
(* on the network subsystem, the provider (CManagerFactory) and the        *)
(* capability handle (CManagerInterface), and its writes of the session    *)
(* globals, are recorded in order in `calls`.                              *)
(***************************************************************************)
EXTENDS Integers, Sequences, FiniteSets, TLC

VARIABLES
    g_pManager,      \* g_pManager # nullptr
    g_pFactory,      \* g_pFactory # nullptr
    g_initialized,
    g_lastError,
    g_mockConnected,
    connected,       \* what the remote's IsConnected() reports
    counts,          \* the resources held open, and the lifecycle calls made so far
    op,              \* the entry point whose result the caller holds, or "none"
    args,            \* the arguments it was called with
    exit,            \* how it ended: "returned", "escaped" (an exception left it), "aborted"
    result,          \* the integer it returned
    calls,           \* the events of that call, in program order
    text,            \* the text it wrote to the caller's buffer (or returned)
    sent             \* the records it passed to TradeTransaction / UserRecordNew / Update

vars == <<g_pManager, g_pFactory, g_initialized, g_lastError, g_mockConnected,
          connected, counts, op, args, exit, result, calls, text, sent>>

\* The session proper, and what one call leaves for the caller to see.
session == <<g_pManager, g_pFactory, g_initialized, g_mockConnected, counts>>
observed == <<op, args, exit, result, calls, text, sent>>

\* ---------------------------------------------------------------- bounds
\* Initialize and Shutdown calls that reach a lifecycle primitive, per run.
MaxLifecycleCalls == 3

\* ------------------------------------------------------- return codes (.h)
MT4_SUCCESS == 0
MT4_ERROR_NOT_INITIALIZED == -1
MT4_ERROR_ALREADY_INITIALIZED == -2
MT4_ERROR_CONNECTION_FAILED == -3
MT4_ERROR_LOGIN_FAILED == -4
MT4_ERROR_NOT_CONNECTED == -5
MT4_ERROR_INVALID_PARAMETER == -6
MT4_ERROR_BUFFER_TOO_SMALL == -7
MT4_ERROR_INTERNAL == -99

\* A null const char* / char*.
nullptr == "<nullptr>"
\* Nothing was written to a caller buffer and no text was returned.
NoText == "<none>"

Range(seq) == {seq[i] : i \in 1..Len(seq)}

\* What a call into the remote library can do besides returning: throw a
\* std::exception (caught by the first handler, e.what() is the message) or
\* anything else (caught by catch (...)).
Throws == {"std", "other"}
what == "remote exception"

\* SetError, line 21.
SetError(error) == IF error = nullptr THEN "" ELSE error

\* The message a catch pair stores: e.what() or the handler's fixed text.
Caught(kind, fixed) == IF kind = "std" THEN what ELSE fixed

\* Events.  W: a call on the process-wide network subsystem; P: on the provider
\* (CManagerFactory); H: on the capability handle (CManagerInterface); G: a write
\* of a session global; C: a C runtime call on caller or local memory.
W(call, out) == [on |-> "winsock", call |-> call, out |-> out]
P(call, out) == [on |-> "provider", call |-> call, out |-> out]
H(call, out) == [on |-> "handle", call |-> call, out |-> out]
G(call, out) == [on |-> "session", call |-> call, out |-> out]
C(call, out) == [on |-> "crt", call |-> call, out |-> out]
\* O: a value the remote library stored through an out-parameter.
O(call, out) == [on |-> "out", call |-> call, out |-> out]

\* The event recording a write of g_lastError.
Err(msg) == G("SetError", SetError(msg))

\* The resources the session holds open, each as acquisitions minus releases:
\* the process-wide network subsystem (WSAStartup / WSACleanup), the provider's
\* network start (WinsockStartup / WinsockCleanup), provider objects (new /
\* delete) and capability handles (Create / Release; a Release that throws is
\* still a Release call on the handle).  `lifecycle` counts the MT4_Initialize
\* calls that pass the guard of line 39 and the MT4_Shutdown calls.
Acquires ==
    [wsa |-> {W("WSAStartup", "ok")},
     winsock |-> {P("WinsockStartup", "ok")},
     factory |-> {P("new", "ok")},
     handle |-> {P("Create", "ok")},
     lifecycle |-> {W("WSAStartup", "ok"), W("WSAStartup", "fail")}]

Releases ==
    [wsa |-> {W("WSACleanup", "ok")},
     winsock |-> {P("WinsockCleanup", "ok")},
     factory |-> {P("delete", "ok")},
     handle |-> {H("Release", "ok"), H("Release", "throw")},
     lifecycle |-> {}]

ZeroCounts == [k \in DOMAIN Acquires |-> 0]

Occurrences(ev, set) == Cardinality({i \in 1..Len(ev) : ev[i] \in set})

\* The counters after the events `ev` of one call of entry point `name`.
Count(cs, name, ev) ==
    [k \in DOMAIN cs |->
        IF k = "lifecycle" /\ name = "MT4_Shutdown"
        THEN cs[k] + 1
        ELSE cs[k] + Occurrences(ev, Acquires[k]) - Occurrences(ev, Releases[k])]

Budget == counts.lifecycle < MaxLifecycleCalls

\* The entry points are called one at a time (the facade takes no lock): a call
\* starts only when no other call's result is pending and the process runs.
Idle == op = "none" /\ exit # "aborted"
NoArgs == <<>>

Init ==
    /\ g_pManager = FALSE
    /\ g_pFactory = FALSE
    /\ g_initialized = FALSE
    /\ g_lastError = ""
    /\ g_mockConnected = FALSE
    /\ connected = FALSE
    /\ counts = ZeroCounts
    /\ op = "none"
    /\ args = NoArgs
    /\ exit = "returned"
    /\ result = 0
    /\ calls = <<>>
    /\ text = NoText
    /\ sent = <<>>

\* An entry point ends: its name, how it ended, its return value, its events,
\* the last-error text it leaves and the text it produced.
Ends(name, how, ret, ev, err, out) ==
    /\ op' = name
    /\ exit' = how
    /\ result' = ret
    /\ calls' = ev
    /\ g_lastError' = err
    /\ text' = out

\* ---------------------------------------------------- the lifecycle entry points
\* The value a global holds after the events `ev`: what its last write in `ev`
\* stored, or `old` when `ev` does not write it.
LastWrite(ev, global) ==
    LET at == {i \in 1..Len(ev) : ev[i].on = "session" /\ ev[i].call = global}
    IN  IF at = {} THEN 0 ELSE CHOOSE i \in at : \A j \in at : j <= i

Written(ev, global, old) ==
    IF LastWrite(ev, global) = 0
    THEN old
    ELSE ev[LastWrite(ev, global)].out \in {"factory", "handle", "true"}

\* MT4_Initialize or MT4_Shutdown ends after the events `ev`: the globals hold
\* what `ev` last wrote to them, and the remote connection goes with the handle.
Lifecycle(name, how, ret, ev) ==
    /\ g_pFactory' = Written(ev, "g_pFactory", g_pFactory)
    /\ g_pManager' = Written(ev, "g_pManager", g_pManager)
    /\ g_initialized' = Written(ev, "g_initialized", g_initialized)
    /\ g_mockConnected' = Written(ev, "g_mockConnected", g_mockConnected)
    /\ connected' = IF LastWrite(ev, "g_pManager") = 0 THEN connected ELSE FALSE
    /\ counts' = Count(counts, name, ev)
    /\ Ends(name, how, ret, ev,
            IF LastWrite(ev, "SetError") = 0 THEN g_lastError
            ELSE ev[LastWrite(ev, "SetError")].out,
            NoText)

\* ------------------------------------------------------------ MT4_Initialize
\* A variant of the guard of line 39 that lets every call through.
InitializeUnguarded == FALSE

\* Line 39.
AlreadyInitialized == g_initialized

\* Where the sequence of lines 46-82 stops: WSAStartup fails, IsValid is false,
\* Create returns nullptr, one of the provider calls throws, or none of these.
InitOutcomes ==
    {[at |-> a, kind |-> "fail"] : a \in {"WSAStartup", "IsValid", "Create", "done"}}
    \cup {[at |-> a, kind |-> k] :
            a \in {"new", "IsValid", "WinsockStartup", "Create"}, k \in Throws}

\* The events of lines 46-70 up to the step `at`, which ends with `out`.
InitializeSteps(at, out) ==
    LET wsa == <<W("WSAStartup", "ok")>>
        new == wsa \o <<P("new", "ok"), G("g_pFactory", "factory")>>
        val == new \o <<P("IsValid", "true")>>
        wss == val \o <<P("WinsockStartup", "ok")>>
    IN  CASE at = "WSAStartup" -> <<W("WSAStartup", out)>>
          [] at = "new" -> wsa \o <<P("new", out)>>
          [] at = "IsValid" -> new \o <<P("IsValid", out)>>
          [] at = "WinsockStartup" -> val \o <<P("WinsockStartup", out)>>
          [] at = "Create" -> wss \o <<P("Create", out)>>

\* A variant of the roll-back that stops the network subsystem but keeps the provider.
RollbackKeepsProvider(hasFactory) == <<W("WSACleanup", "ok")>>

\* The roll-back of lines 59-61 and 73-75, and of the handlers' lines 85-89, 94-98.
InitializeRollback(hasFactory) ==
    (IF hasFactory THEN <<P("delete", "ok"), G("g_pFactory", "nullptr")>> ELSE <<>>)
    \o <<W("WSACleanup", "ok")>>

\* Lines 80-82.
InitializeSucceeds ==
    <<G("g_pManager", "handle"), G("g_initialized", "true"), Err("")>>

\* The events of one run of lines 44-101 that stops as `o` says.
InitializeEvents(o) ==
    CASE o.at = "WSAStartup" ->
            InitializeSteps("WSAStartup", "fail") \o <<Err("Failed to initialize Winsock")>>
      [] o.at = "new" ->
            \* the constructor threw: g_pFactory is not assigned
            InitializeSteps("new", "throw") \o InitializeRollback(g_pFactory)
              \o <<Err(Caught(o.kind, "Unknown error during initialization"))>>
      [] o.at = "IsValid" /\ o.kind = "fail" ->
            InitializeSteps("IsValid", "false") \o InitializeRollback(TRUE)
              \o <<Err("Failed to load mtmanapi.dll")>>
      [] o.at \in {"IsValid", "WinsockStartup", "Create"} /\ o.kind \in Throws ->
            \* Create threw: g_pManager is not assigned
            InitializeSteps(o.at, "throw") \o InitializeRollback(TRUE)
              \o <<Err(Caught(o.kind, "Unknown error during initialization"))>>
      [] o.at = "Create" /\ o.kind = "fail" ->
            InitializeSteps("Create", "nullptr") \o <<G("g_pManager", "nullptr")>>
              \o InitializeRollback(TRUE) \o <<Err("Failed to create manager instance")>>
      [] o.at = "done" ->
            InitializeSteps("Create", "ok") \o InitializeSucceeds

MT4_Initialize ==
    /\ Idle
    /\ args' = NoArgs
    /\ sent' = <<>>
    /\ IF AlreadyInitialized
       THEN /\ UNCHANGED <<session, connected>>
            /\ Ends("MT4_Initialize", "returned", MT4_ERROR_ALREADY_INITIALIZED,
                    <<Err("Already initialized")>>, SetError("Already initialized"), NoText)
       ELSE /\ Budget
            /\ \E o \in InitOutcomes :
                Lifecycle("MT4_Initialize", "returned",
                          IF o.at = "done" THEN MT4_SUCCESS ELSE MT4_ERROR_INTERNAL,
                          InitializeEvents(o))

\* -------------------------------------------------------------- MT4_Shutdown
\* The events of lines 105-108, 112-116 and 118-123.
ShutdownRelease(hasManager) ==
    IF hasManager THEN <<H("Release", "ok"), G("g_pManager", "nullptr")>> ELSE <<>>

ShutdownFactory(hasFactory) ==
    IF hasFactory
    THEN <<P("WinsockCleanup", "ok"), P("delete", "ok"), G("g_pFactory", "nullptr")>>
    ELSE <<>>

ShutdownFlags ==
    <<G("g_initialized", "false"), G("g_mockConnected", "false"), Err(""),
      W("WSACleanup", "ok")>>

\* A variant of the teardown that destroys the provider before it releases the handle.
ShutdownProviderFirst(hasManager, hasFactory) ==
    ShutdownFactory(hasFactory) \o ShutdownRelease(hasManager) \o ShutdownFlags

\* Lines 105-123 when nothing throws.
ShutdownSteps(hasManager, hasFactory) ==
    ShutdownRelease(hasManager) \o ShutdownFactory(hasFactory) \o ShutdownFlags

\* Release (line 106) and WinsockCleanup (line 113) are calls into the remote
\* library made outside any try block: an exception they raise leaves
\* MT4_Shutdown at that line, with the globals as written so far.
ShutdownOutcomes == {"done", "Release", "WinsockCleanup"}

MT4_Shutdown ==
    /\ Idle
    /\ Budget
    /\ args' = NoArgs
    /\ sent' = <<>>
    /\ \E o \in ShutdownOutcomes :
        CASE o = "Release" ->
                /\ g_pManager
                /\ Lifecycle("MT4_Shutdown", "escaped", result, <<H("Release", "throw")>>)
          [] o = "WinsockCleanup" ->
                /\ g_pFactory
                /\ Lifecycle("MT4_Shutdown", "escaped", result,
                             ShutdownRelease(g_pManager) \o <<P("WinsockCleanup", "throw")>>)
          [] o = "done" ->
                Lifecycle("MT4_Shutdown", "returned", result,
                          ShutdownSteps(g_pManager, g_pFactory))

\* ------------------------------------------------- shared parts of the facade
\* A variant of the guard that never rejects.
GuardSkipped == FALSE

\* The guard every status-returning entry point starts with (lines 127, 174, ...).
NotInitialized == ~g_initialized \/ ~g_pManager

\* An entry point returns `ret` after the events `ev`, storing `msg` with
\* SetError as its last act; the session globals are left alone.
Returns(name, ret, ev, msg, out) ==
    /\ UNCHANGED session
    /\ Ends(name, "returned", ret, ev \o <<Err(msg)>>, SetError(msg), out)

\* Lines 128-129 and their copies.
ReturnsNotInitialized(name) ==
    Returns(name, MT4_ERROR_NOT_INITIALIZED, <<>>, "Not initialized", NoText)

\* A variant of SafeIsConnected whose handler answers true.
SafeIsConnectedOptimistic(ic) ==
    IF ~g_initialized \/ ~g_pManager
    THEN FALSE
    ELSE IF ic = "throw" THEN TRUE ELSE connected

\* SafeIsConnected, lines 26-36; `ic` is what the remote IsConnected does.
IsConnectedOutcomes == {"ok", "throw"}

SafeIsConnected(ic) ==
    IF ~g_initialized \/ ~g_pManager
    THEN FALSE
    ELSE IF ic = "throw" THEN FALSE ELSE connected

SafeIsConnectedCalls(ic) ==
    IF ~g_initialized \/ ~g_pManager
    THEN <<>>
    ELSE IF ic = "throw"
         THEN <<H("IsConnected", "throw")>>
         ELSE <<H("IsConnected", IF connected THEN "true" ELSE "false")>>

\* The catch pair that closes an entry point's try block: the exception is a
\* std::exception or something else.
Catches(name, ev, fixed) ==
    \E kind \in Throws :
        Returns(name, MT4_ERROR_INTERNAL, ev, Caught(kind, fixed), NoText)

\* ErrorDescription(result) returns the remote's text, returns nullptr, or throws.
DescOutcomes == {"text", "nullptr", "throw"}
RemoteDescription == "remote error description"

\* A variant of the failure tail that never uses the remote's text.
DescribesFallbackOnly(name, ret, ev, fallback, fixed) ==
    \E desc \in DescOutcomes :
        IF desc = "throw"
        THEN Catches(name, ev \o <<H("ErrorDescription", "throw")>>, fixed)
        ELSE Returns(name, ret, ev \o <<H("ErrorDescription", desc)>>, fallback, NoText)

\* The failure tail `errorDesc = ErrorDescription(result); SetError(errorDesc ?
\* errorDesc : fallback); return ret;` inside the try block.
Describes(name, ret, ev, fallback, fixed) ==
    \E desc \in DescOutcomes :
        IF desc = "throw"
        THEN Catches(name, ev \o <<H("ErrorDescription", "throw")>>, fixed)
        ELSE Returns(name, ret, ev \o <<H("ErrorDescription", desc)>>,
                     IF desc = "nullptr" THEN fallback ELSE RemoteDescription, NoText)

\* What a status-returning call on the handle does.
CallOutcomes == {"ok", "fail", "throw"}

\* --------------------------------------------------------------- MT4_Connect
Servers == {nullptr, "", "192.0.2.1:443"}

\* Lines 137-170, for a non-null server.
ConnectTry(server) ==
    LET fixed == "Unknown error during connection"
        e1(cwd) == <<C("strncpy_s", server), C("GetCurrentDirectoryA", cwd)>>
                   \o (IF cwd = "none" THEN <<>> ELSE <<H("WorkingDirectory", "ok")>>)
                   \o <<C("Sleep", "100")>>
    IN  \E cwd \in {"none", "ok", "throw"} :
            IF cwd = "throw"
            THEN /\ UNCHANGED connected
                 /\ Catches("MT4_Connect",
                            <<C("strncpy_s", server), C("GetCurrentDirectoryA", "ok"),
                              H("WorkingDirectory", "throw")>>, fixed)
            ELSE \E conn \in CallOutcomes :
                    CASE conn = "ok" ->
                            /\ connected' = TRUE
                            /\ Returns("MT4_Connect", MT4_SUCCESS,
                                       e1(cwd) \o <<H("Connect", "RET_OK")>>, "", NoText)
                      [] conn = "fail" ->
                            /\ connected' = FALSE
                            /\ Describes("MT4_Connect", MT4_ERROR_CONNECTION_FAILED,
                                         e1(cwd) \o <<H("Connect", "error")>>,
                                         "Connection failed", fixed)
                      [] conn = "throw" ->
                            /\ UNCHANGED connected
                            /\ Catches("MT4_Connect", e1(cwd) \o <<H("Connect", "throw")>>,
                                       fixed)

MT4_Connect ==
    /\ Idle
    /\ sent' = <<>>
    /\ \E server \in Servers :
        /\ args' = [server |-> server]
        /\ IF NotInitialized
           THEN UNCHANGED connected /\ ReturnsNotInitialized("MT4_Connect")
           ELSE IF server = nullptr
           THEN /\ UNCHANGED connected
                /\ Returns("MT4_Connect", MT4_ERROR_INVALID_PARAMETER, <<>>,
                           "Invalid server parameter", NoText)
           ELSE ConnectTry(server)

\* ----------------------------------------------------------------- MT4_Login
Passwords == {nullptr, "secret"}

MT4_Login ==
    /\ Idle
    /\ sent' = <<>>
    /\ UNCHANGED connected
    /\ \E password \in Passwords :
        /\ args' = [password |-> password]
        /\ IF NotInitialized THEN ReturnsNotInitialized("MT4_Login")
           ELSE IF password = nullptr
           THEN Returns("MT4_Login", MT4_ERROR_INVALID_PARAMETER, <<>>,
                        "Invalid password parameter", NoText)
           ELSE \E login \in CallOutcomes :
                LET fixed == "Unknown error during login"
                IN  CASE login = "ok" ->
                            Returns("MT4_Login", MT4_SUCCESS, <<H("Login", "RET_OK")>>,
                                    "", NoText)
                      [] login = "fail" ->
                            Describes("MT4_Login", MT4_ERROR_LOGIN_FAILED,
                                      <<H("Login", "error")>>, "Login failed", fixed)
                      [] login = "throw" ->
                            Catches("MT4_Login", <<H("Login", "throw")>>, fixed)

\* ------------------------------------------------------------ MT4_Disconnect
\* A variant whose successful disconnect also clears the initialized flag.
MT4_DisconnectResets ==
    /\ Idle
    /\ args' = NoArgs
    /\ sent' = <<>>
    /\ IF NotInitialized
       THEN UNCHANGED connected /\ ReturnsNotInitialized("MT4_Disconnect")
       ELSE \E disc \in CallOutcomes :
            CASE disc = "ok" ->
                    /\ connected' = FALSE
                    /\ g_initialized' = FALSE
                    /\ UNCHANGED <<g_pManager, g_pFactory, g_mockConnected, counts>>
                    /\ Ends("MT4_Disconnect", "returned", MT4_SUCCESS,
                            <<H("Disconnect", "RET_OK"), Err("")>>, "", NoText)
              [] disc = "fail" ->
                    /\ UNCHANGED connected
                    /\ Returns("MT4_Disconnect", MT4_ERROR_INTERNAL,
                               <<H("Disconnect", "error")>>, "", NoText)
              [] disc = "throw" ->
                    /\ UNCHANGED connected
                    /\ Returns("MT4_Disconnect", MT4_ERROR_INTERNAL,
                               <<H("Disconnect", "throw")>>, "Error during disconnect",
                               NoText)

\* Line 213 stores "" whatever Disconnect returned; line 214 picks the code.
MT4_Disconnect ==
    /\ Idle
    /\ args' = NoArgs
    /\ sent' = <<>>
    /\ IF NotInitialized
       THEN UNCHANGED connected /\ ReturnsNotInitialized("MT4_Disconnect")
       ELSE \E disc \in CallOutcomes :
            CASE disc = "ok" ->
                    /\ connected' = FALSE
                    /\ Returns("MT4_Disconnect", MT4_SUCCESS,
                               <<H("Disconnect", "RET_OK")>>, "", NoText)
              [] disc = "fail" ->
                    /\ UNCHANGED connected
                    /\ Returns("MT4_Disconnect", MT4_ERROR_INTERNAL,
                               <<H("Disconnect", "error")>>, "", NoText)
              [] disc = "throw" ->
                    /\ UNCHANGED connected
                    /\ Returns("MT4_Disconnect", MT4_ERROR_INTERNAL,
                               <<H("Disconnect", "throw")>>, "Error during disconnect",
                               NoText)

\* ----------------------------------------------------------- MT4_IsConnected
\* A variant that stores an error text when it answers 0.
MT4_IsConnectedReporting ==
    /\ Idle
    /\ args' = NoArgs
    /\ sent' = <<>>
    /\ UNCHANGED <<session, connected>>
    /\ \E ic \in IsConnectedOutcomes :
        Ends("MT4_IsConnected", "returned", IF SafeIsConnected(ic) THEN 1 ELSE 0,
             SafeIsConnectedCalls(ic),
             IF SafeIsConnected(ic) THEN g_lastError ELSE "Not connected", NoText)

\* Lines 222-224.
MT4_IsConnected ==
    /\ Idle
    /\ args' = NoArgs
    /\ sent' = <<>>
    /\ UNCHANGED <<session, connected>>
    /\ \E ic \in IsConnectedOutcomes :
        Ends("MT4_IsConnected", "returned", IF SafeIsConnected(ic) THEN 1 ELSE 0,
             SafeIsConnectedCalls(ic), g_lastError, NoText)

\* ---------------------------------------------------------- MT4_GetLastError
MT4_GetLastError ==
    /\ Idle
    /\ args' = NoArgs
    /\ sent' = <<>>
    /\ UNCHANGED <<session, connected>>
    /\ Ends("MT4_GetLastError", "returned", result, <<>>, g_lastError, g_lastError)

\* ------------------------------------------------------------------ MT4_Ping
\* Lines 242-243 return without a SetError on either value of `result`.
PingTry(ev) ==
    \E ping \in CallOutcomes :
        CASE ping = "ok" ->
                /\ UNCHANGED session
                /\ Ends("MT4_Ping", "returned", MT4_SUCCESS,
                        ev \o <<H("Ping", "RET_OK")>>, g_lastError, NoText)
          [] ping = "fail" ->
                /\ UNCHANGED session
                /\ Ends("MT4_Ping", "returned", MT4_ERROR_INTERNAL,
                        ev \o <<H("Ping", "error")>>, g_lastError, NoText)
          [] ping = "throw" ->
                Returns("MT4_Ping", MT4_ERROR_INTERNAL, ev \o <<H("Ping", "throw")>>,
                        "Error during ping", NoText)

MT4_Ping ==
    /\ Idle
    /\ args' = NoArgs
    /\ sent' = <<>>
    /\ UNCHANGED connected
    /\ IF NotInitialized THEN ReturnsNotInitialized("MT4_Ping")
       ELSE \E ic \in IsConnectedOutcomes :
            IF ~SafeIsConnected(ic)
            THEN Returns("MT4_Ping", MT4_ERROR_NOT_CONNECTED, SafeIsConnectedCalls(ic),
                         "Not connected", NoText)
            ELSE PingTry(SafeIsConnectedCalls(ic))

\* ------------------------------------------------------ bounded serialization
\* A caller buffer: `ptr` is FALSE for a null pointer, `size` is bufferSize.
\* Capacities: none, too small for "[]", exactly "[]" and its terminator, exactly
\* the 11 characters of an order reply and their terminator, and ample (room
\* for a list of 100 records).
BufferSizes == {0, 2, 3, 12, 8192}
Buffers == {[ptr |-> FALSE, size |-> 4096]} \cup {[ptr |-> TRUE, size |-> n] : n \in BufferSizes}

\* `!buffer || bufferSize <= 0`, lines 257, 310, 367, 770.
BadBuffer(buf) == ~buf.ptr \/ buf.size <= 0

\* What a record request returns: no array, an array with total 0, or an array
\* of `total` records owned by the remote library; or it throws.
\* Totals: one record, two, and more than either cap of lines 324, 389, 789.
MaxTotal == 101
Totals == {1, 2, 51, MaxTotal}
RequestOutcomes ==
    {[ptr |-> FALSE, total |-> 0], [ptr |-> TRUE, total |-> 0]}
    \cup {[ptr |-> TRUE, total |-> n] : n \in Totals}

MemFreeOutcomes == {"ok", "throw"}

\* strcpy_s(dest, size, src) with Len(src) + 1 > size: the CRT calls the invalid
\* parameter handler, which ends the process unless the host installed one that
\* returns; strcpy_s then leaves dest empty and returns ERANGE, which is ignored.
HandlerOutcomes == {"abort", "return"}

\* An entry point never returns: the invalid parameter handler ended the process.
Aborts(name, ev) ==
    /\ UNCHANGED session
    /\ Ends(name, "aborted", result, ev, g_lastError, NoText)

\* Lines 278-288 (and 333-343, 400-410, 801-811): the length check, the copy to
\* the caller's buffer and the release of the remote array `owned` (FALSE when
\* the text was built from local data).
Serializes(name, ev, json, buf, owned, small, fixed) ==
    \E free \in MemFreeOutcomes :
        LET freed(out) == IF owned THEN <<H("MemFree", out)>> ELSE <<>>
            copied == ev \o <<C("strcpy_s", json)>>
        IN  IF Len(json) >= buf.size
            THEN IF owned /\ free = "throw"
                 THEN Catches(name, ev \o freed("throw"), fixed)
                 ELSE Returns(name, MT4_ERROR_BUFFER_TOO_SMALL, ev \o freed("ok"),
                              small, NoText)
            ELSE IF owned /\ free = "throw"
                 THEN \E kind \in Throws :
                        Returns(name, MT4_ERROR_INTERNAL, copied \o freed("throw"),
                                Caught(kind, fixed), json)
                 ELSE Returns(name, MT4_SUCCESS, copied \o freed("ok"), "", json)

\* Lines 347-349 (and 414-416, 815-817): strcpy_s(buffer, bufferSize, "[]").
SerializesEmpty(name, ev, buf) ==
    IF buf.size >= 3
    THEN Returns(name, MT4_SUCCESS, ev \o <<C("strcpy_s", "[]")>>, "", "[]")
    ELSE \E h \in HandlerOutcomes :
            IF h = "abort"
            THEN Aborts(name, ev \o <<C("strcpy_s", "invalid parameter")>>)
            ELSE Returns(name, MT4_SUCCESS, ev \o <<C("strcpy_s", "invalid parameter")>>,
                         "", "")

\* The records of a remote array, by index from 1.
UserAt(i) ==
    [login |-> 1000 + i, name |-> "Ann", email |-> "a@b.c", balance |-> 100 * i,
     credit |-> 0, leverage |-> 100, group |-> "demo", enable |-> 1]

TradeAt(i) ==
    [order |-> 6 + i, login |-> 1001, symbol |-> "EURUSD", volume |-> 10 * i,
     profit |-> 0, close_price |-> 11, cmd |-> 1]

SymbolAt(i) ==
    [symbol |-> IF i = 1 THEN "EURUSD" ELSE "GBPUSD", description |-> "fx", digits |-> 5,
     contract_size |-> 1000 * i, currency |-> "USD", type |-> 0]

\* Lines 270-276.
UserJson(u) ==
    "{\"login\":" \o ToString(u.login) \o ",\"name\":\"" \o u.name \o "\""
    \o ",\"email\":\"" \o u.email \o "\"" \o ",\"balance\":" \o ToString(u.balance)
    \o ",\"credit\":" \o ToString(u.credit) \o ",\"leverage\":" \o ToString(u.leverage)
    \o ",\"group\":\"" \o u.group \o "\"}"

\* Lines 326-328.
UserListItem(u) ==
    "{\"login\":" \o ToString(u.login) \o ",\"name\":\"" \o u.name \o "\""
    \o ",\"balance\":" \o ToString(u.balance) \o "}"

\* Lines 391-395.
TradeListItem(t) ==
    "{\"order\":" \o ToString(t.order) \o ",\"login\":" \o ToString(t.login)
    \o ",\"symbol\":\"" \o t.symbol \o "\"" \o ",\"volume\":" \o ToString(t.volume)
    \o ",\"profit\":" \o ToString(t.profit) \o "}"

\* Lines 791-796.
SymbolListItem(c) ==
    "{\"symbol\":\"" \o c.symbol \o "\"" \o ",\"description\":\"" \o c.description \o "\""
    \o ",\"digits\":" \o ToString(c.digits) \o ",\"contractSize\":"
    \o ToString(c.contract_size) \o ",\"currency\":\"" \o c.currency \o "\""
    \o ",\"type\":" \o ToString(c.type) \o "}"

\* The element caps of lines 324, 389 and 789.
MaxListedUsers == 100
MaxListedTrades == 100
MaxListedSymbols == 50

Min(a, b) == IF a < b THEN a ELSE b

\* The loops of lines 322-331, 387-398 and 787-799: `items[i]` is the text of
\* element i; elements 1..min(total, cap) are joined with commas in brackets.
\* (The range is halved rather than walked, to keep the evaluation shallow.)
RECURSIVE JoinRange(_, _, _)
JoinRange(items, lo, hi) ==
    IF lo > hi THEN ""
    ELSE IF lo = hi THEN items[lo]
    ELSE JoinRange(items, lo, (lo + hi) \div 2) \o ","
         \o JoinRange(items, (lo + hi) \div 2 + 1, hi)

JoinItems(items, n) == JoinRange(items, 1, n)

\* A variant of the loops without the cap.
ListJsonUncapped(items, total, cap) == "[" \o JoinItems(items, total) \o "]"

ListJson(items, total, cap) == "[" \o JoinItems(items, Min(total, cap)) \o "]"

\* The element texts of the arrays UsersRequest, TradesRequest /
\* TradesUserHistory and SymbolsGetAll return.
UserItems == [i \in 1..MaxTotal |-> UserListItem(UserAt(i))]
TradeItems == [i \in 1..MaxTotal |-> TradeListItem(TradeAt(i))]
SymbolItems == [i \in 1..MaxTotal |-> SymbolListItem(SymbolAt(i))]

\* ----------------------------------------------------------- MT4_GetUserInfo
MT4_GetUserInfo ==
    /\ Idle
    /\ sent' = <<>>
    /\ UNCHANGED connected
    /\ \E buf \in Buffers :
        LET name == "MT4_GetUserInfo"
        IN  /\ args' = [login |-> UserAt(1).login, buffer |-> buf]
            /\ IF NotInitialized THEN ReturnsNotInitialized(name)
               ELSE IF BadBuffer(buf)
               THEN Returns(name, MT4_ERROR_INVALID_PARAMETER, <<>>,
                            "Invalid buffer parameter", NoText)
               ELSE \/ Catches(name, <<H("UserRecordsRequest", "throw")>>, "Unknown error")
                    \/ \E r \in RequestOutcomes :
                        /\ r.total <= 1
                        /\ IF r.ptr /\ r.total > 0
                           THEN Serializes(name, <<H("UserRecordsRequest", "array")>>,
                                           UserJson(UserAt(1)), buf, TRUE,
                                           "Buffer too small", "Unknown error")
                           ELSE Returns(name, MT4_ERROR_INTERNAL,
                                        <<H("UserRecordsRequest",
                                            IF r.ptr THEN "array" ELSE "nullptr")>>,
                                        "User not found", NoText)

\* ----------------------------------------------------------- MT4_GetAllUsers
\* Lines 315-358 and their copies in MT4_GetTrades and MT4_GetSymbols: the
\* request `call` made after the events `ev`, then the capped list or "[]";
\* `items[i]` is the text of record i of the array the request returns.
Lists(name, ev, call, items, cap, buf, fixed) ==
    \/ Catches(name, ev \o <<H(call, "throw")>>, fixed)
    \/ \E r \in RequestOutcomes :
        LET got == ev \o <<H(call, IF r.ptr THEN "array" ELSE "nullptr"),
                            O("total", ToString(r.total))>>
        IN  IF r.ptr /\ r.total > 0
            THEN Serializes(name, got,
                            ListJson([i \in 1..r.total |-> items[i]], r.total, cap),
                            buf, TRUE, "Buffer too small", fixed)
            ELSE SerializesEmpty(name, got, buf)

MT4_GetAllUsers ==
    /\ Idle
    /\ sent' = <<>>
    /\ UNCHANGED connected
    /\ \E buf \in Buffers :
        LET name == "MT4_GetAllUsers"
            items == UserItems
        IN  /\ args' = [buffer |-> buf]
            /\ IF NotInitialized THEN ReturnsNotInitialized(name)
               ELSE IF BadBuffer(buf)
               THEN Returns(name, MT4_ERROR_INVALID_PARAMETER, <<>>,
                            "Invalid buffer parameter", NoText)
               ELSE Lists(name, <<>>, "UsersRequest", items, MaxListedUsers, buf,
                          "Unknown error")

\* ------------------------------------------------------------- MT4_GetTrades
MT4_GetTrades ==
    /\ Idle
    /\ sent' = <<>>
    /\ UNCHANGED connected
    /\ \E buf \in Buffers, login \in {0, 1001} :
        LET name == "MT4_GetTrades"
            items == TradeItems
        IN  /\ args' = [login |-> login, buffer |-> buf]
            /\ IF NotInitialized THEN ReturnsNotInitialized(name)
               ELSE IF BadBuffer(buf)
               THEN Returns(name, MT4_ERROR_INVALID_PARAMETER, <<>>,
                            "Invalid buffer parameter", NoText)
               ELSE Lists(name, <<>>,
                          IF login > 0 THEN "TradesUserHistory" ELSE "TradesRequest",
                          items, MaxListedTrades, buf, "Unknown error")

\* ------------------------------------------------------------ MT4_GetSymbols
MT4_GetSymbols ==
    /\ Idle
    /\ sent' = <<>>
    /\ UNCHANGED connected
    /\ \E buf \in Buffers :
        LET name == "MT4_GetSymbols"
            fixed == "Unknown error getting symbols"
            items == SymbolItems
        IN  /\ args' = [buffer |-> buf]
            /\ IF NotInitialized THEN ReturnsNotInitialized(name)
               ELSE IF BadBuffer(buf)
               THEN Returns(name, MT4_ERROR_INVALID_PARAMETER, <<>>,
                            "Invalid buffer parameter", NoText)
               ELSE \/ Catches(name, <<H("SymbolsRefresh", "throw")>>, fixed)
                    \/ Lists(name, <<H("SymbolsRefresh", "ok")>>, "SymbolsGetAll", items,
                             MaxListedSymbols, buf, fixed)

\* ------------------------------------------------------------- MT4_OpenTrade
\* Lot volumes, in hundredths of a lot (150 is 1.5 lots).
Lots == {0, 1, 29, 150}

\* The hundredths h <= 200 for which the double product (h / 100.0) * 100 is
\* just below h, so that the conversion to int of lines 451 and 517 yields h - 1.
InexactLots == {29, 57, 58, 113, 114, 115, 116}

\* `(int)(volume * 100)`, lines 451 and 517.
ToVolume(lots) == IF lots \in InexactLots THEN lots - 1 ELSE lots

\* sizeof(TradeTransInfo::symbol), the destination of line 450.
SymbolSize == 12
Symbols == {nullptr, "EURUSD", "EURUSD.micro"}

\* Line 465.
OrderJson(order) == "{\"order\":" \o ToString(order) \o "}"

\* The order number the remote assigns in TradeTransaction.
NewOrder == 7

\* Lines 460-488, with the request `trade` built by lines 447-458.
OpenTradeSends(ev, trade, buf) ==
    LET name == "MT4_OpenTrade"
        fixed == "Unknown error opening trade"
    IN  /\ sent' = <<trade>>
        /\ \E tt \in CallOutcomes :
            CASE tt = "ok" ->
                    Serializes(name, ev \o <<H("TradeTransaction", "RET_OK")>>,
                               OrderJson(NewOrder), buf, FALSE, "Buffer too small", fixed)
              [] tt = "fail" ->
                    Describes(name, MT4_ERROR_INTERNAL,
                              ev \o <<H("TradeTransaction", "error")>>,
                              "Trade transaction failed", fixed)
              [] tt = "throw" ->
                    Catches(name, ev \o <<H("TradeTransaction", "throw")>>, fixed)

\* Lines 447-458.
OpenTradeTry(ev, symbol, lots, buf) ==
    LET trade(sym) == [type |-> "cmd", cmd |-> "cmd", symbol |-> sym,
                       volume |-> ToVolume(lots), price |-> 10, order |-> 0, orderby |-> 0]
    IN  IF Len(symbol) < SymbolSize
        THEN OpenTradeSends(ev \o <<C("strcpy_s", symbol)>>, trade(symbol), buf)
        ELSE \E h \in HandlerOutcomes :
                IF h = "abort"
                THEN /\ sent' = <<>>
                     /\ Aborts("MT4_OpenTrade", ev \o <<C("strcpy_s", "invalid parameter")>>)
                ELSE OpenTradeSends(ev \o <<C("strcpy_s", "invalid parameter")>>,
                                    trade(""), buf)

MT4_OpenTrade ==
    /\ Idle
    /\ UNCHANGED connected
    /\ \E symbol \in Symbols, lots \in Lots, buf \in Buffers :
        LET name == "MT4_OpenTrade"
        IN  /\ args' = [symbol |-> symbol, lots |-> lots, buffer |-> buf]
            /\ IF NotInitialized THEN sent' = <<>> /\ ReturnsNotInitialized(name)
               ELSE IF symbol = nullptr \/ BadBuffer(buf)
               THEN /\ sent' = <<>>
                    /\ Returns(name, MT4_ERROR_INVALID_PARAMETER, <<>>,
                               "Invalid parameters", NoText)
               ELSE \E ic \in IsConnectedOutcomes :
                    IF ~SafeIsConnected(ic)
                    THEN /\ sent' = <<>>
                         /\ Returns(name, MT4_ERROR_NOT_CONNECTED, SafeIsConnectedCalls(ic),
                                    "Not connected", NoText)
                    ELSE OpenTradeTry(SafeIsConnectedCalls(ic), symbol, lots, buf)

\* ------------------------------------------------------------ MT4_CloseTrade
Prices == {0, 12}

\* Lines 512-519: the request built from the fetched record `trade`.
CloseRequest(order, lots, price, trade) ==
    [type |-> "TT_ORDER_CLOSE_BY", cmd |-> "OP_BUY", symbol |-> trade.symbol,
     volume |-> IF lots > 0 THEN ToVolume(lots) ELSE trade.volume,
     price |-> IF price > 0 THEN price ELSE trade.close_price,
     order |-> order, orderby |-> order]

\* A variant of lines 503-539 that goes on to the transaction whatever the
\* record fetch returned.
CloseTradeTryUnfetched(ev, order, lots, price) ==
    LET name == "MT4_CloseTrade"
        fixed == "Unknown error closing trade"
    IN  \E get \in CallOutcomes :
        IF get = "throw"
        THEN /\ sent' = <<>>
             /\ Catches(name, ev \o <<H("TradeRecordGet", "throw")>>, fixed)
        ELSE LET got == ev \o <<H("TradeRecordGet", IF get = "ok" THEN "RET_OK" ELSE "error")>>
             IN  /\ sent' = <<CloseRequest(order, lots, price, TradeAt(1))>>
                 /\ \E tt \in CallOutcomes :
                     CASE tt = "ok" ->
                             Returns(name, MT4_SUCCESS,
                                     got \o <<H("TradeTransaction", "RET_OK")>>, "", NoText)
                       [] tt = "fail" ->
                             Describes(name, MT4_ERROR_INTERNAL,
                                       got \o <<H("TradeTransaction", "error")>>,
                                       "Close trade failed", fixed)
                       [] tt = "throw" ->
                             Catches(name, got \o <<H("TradeTransaction", "throw")>>, fixed)

\* Lines 503-539.
CloseTradeTry(ev, order, lots, price) ==
    LET name == "MT4_CloseTrade"
        fixed == "Unknown error closing trade"
        got == ev \o <<H("TradeRecordGet", "RET_OK")>>
    IN  \E get \in CallOutcomes :
        CASE get = "throw" ->
                /\ sent' = <<>>
                /\ Catches(name, ev \o <<H("TradeRecordGet", "throw")>>, fixed)
          [] get = "fail" ->
                /\ sent' = <<>>
                /\ Returns(name, MT4_ERROR_INTERNAL, ev \o <<H("TradeRecordGet", "error")>>,
                           "Trade not found", NoText)
          [] get = "ok" ->
                /\ sent' = <<CloseRequest(order, lots, price, TradeAt(1))>>
                /\ \E tt \in CallOutcomes :
                    CASE tt = "ok" ->
                            Returns(name, MT4_SUCCESS,
                                    got \o <<H("TradeTransaction", "RET_OK")>>, "", NoText)
                      [] tt = "fail" ->
                            Describes(name, MT4_ERROR_INTERNAL,
                                      got \o <<H("TradeTransaction", "error")>>,
                                      "Close trade failed", fixed)
                      [] tt = "throw" ->
                            Catches(name, got \o <<H("TradeTransaction", "throw")>>, fixed)

MT4_CloseTrade ==
    /\ Idle
    /\ UNCHANGED connected
    /\ \E lots \in Lots, price \in Prices :
        LET name == "MT4_CloseTrade"
            order == TradeAt(1).order
        IN  /\ args' = [order |-> order, lots |-> lots, price |-> price]
            /\ IF NotInitialized THEN sent' = <<>> /\ ReturnsNotInitialized(name)
               ELSE \E ic \in IsConnectedOutcomes :
                    IF ~SafeIsConnected(ic)
                    THEN /\ sent' = <<>>
                         /\ Returns(name, MT4_ERROR_NOT_CONNECTED, SafeIsConnectedCalls(ic),
                                    "Not connected", NoText)
                    ELSE CloseTradeTry(SafeIsConnectedCalls(ic), order, lots, price)

\* ------------------------------------------------------- ad-hoc field parsing
\* The key markers of lines 567, 573, 583, 593, 669, 679 and 689, and the caller
\* texts passed as jsonData, character by character.
KeyLogin ==
    <<"\"", "l", "o", "g", "i", "n", "\"", ":">>

KeyPassword ==
    <<"\"", "p", "a", "s", "s", "w", "o", "r", "d", "\"", ":", "\"">>

KeyGroup ==
    <<"\"", "g", "r", "o", "u", "p", "\"", ":", "\"">>

KeyName ==
    <<"\"", "n", "a", "m", "e", "\"", ":", "\"">>

KeyEmail ==
    <<"\"", "e", "m", "a", "i", "l", "\"", ":", "\"">>

JsonSpecExample ==
    <<"{", "\"", "l", "o", "g", "i", "n", "\"", ":", "4", "2", "4", "2", ",", "\"", "p",
      "a", "s", "s", "w", "o", "r", "d", "\"", ":", "\"", "x", "\"", ",", "\"", "g", "r",
      "o", "u", "p", "\"", ":", "\"", "g", "\"", "}">>

JsonOverrides ==
    <<"{", "\"", "l", "o", "g", "i", "n", "\"", ":", "7", ",", "\"", "n", "a", "m", "e",
      "\"", ":", "\"", "A", "l", "\"", ",", "\"", "e", "n", "a", "b", "l", "e", "\"", ":",
      "0", ",", "\"", "l", "e", "v", "e", "r", "a", "g", "e", "\"", ":", "5", "0", "0",
      "}">>

JsonContact ==
    <<"{", "\"", "n", "a", "m", "e", "\"", ":", "\"", "B", "o", "\"", ",", "\"", "e", "m",
      "a", "i", "l", "\"", ":", "\"", "b", "@", "c", ".", "d", "\"", ",", "\"", "g", "r",
      "o", "u", "p", "\"", ":", "\"", "v", "i", "p", "\"", "}">>

JsonUnclosed ==
    <<"{", "\"", "g", "r", "o", "u", "p", "\"", ":", "\"", "g", "\"", ",", "\"", "n", "a",
      "m", "e", "\"", ":", "\"", "A", "l">>

JsonLongPassword ==
    <<"{", "\"", "l", "o", "g", "i", "n", "\"", ":", "9", ",", "\"", "p", "a", "s", "s",
      "w", "o", "r", "d", "\"", ":", "\"", "0", "1", "2", "3", "4", "5", "6", "7", "8",
      "9", "a", "b", "c", "d", "e", "f", "\"", "}">>

\* A null jsonData pointer, kept apart from every text.
nullJson == <<nullptr>>

JsonInputs ==
    {nullJson, JsonSpecExample, JsonOverrides, JsonContact, JsonUnclosed, JsonLongPassword}

\* std::string::find(needle, from): the first index >= from (counted from 1)
\* where needle occurs in hay, or 0 for npos.
RECURSIVE Find(_, _, _)
Find(hay, needle, from) ==
    IF from + Len(needle) - 1 > Len(hay) THEN 0
    ELSE IF SubSeq(hay, from, from + Len(needle) - 1) = needle THEN from
    ELSE Find(hay, needle, from + 1)

DigitValue ==
    [c \in {"0", "1", "2", "3", "4", "5", "6", "7", "8", "9"} |->
        CASE c = "0" -> 0 [] c = "1" -> 1 [] c = "2" -> 2 [] c = "3" -> 3 [] c = "4" -> 4
          [] c = "5" -> 5 [] c = "6" -> 6 [] c = "7" -> 7 [] c = "8" -> 8 [] c = "9" -> 9]

\* atoi on the characters of hay from index `from`: blanks, an optional sign,
\* then digits up to the first other character; 0 when there is no digit.
RECURSIVE AtoiDigits(_, _, _)
AtoiDigits(hay, from, acc) ==
    IF from <= Len(hay) /\ hay[from] \in DOMAIN DigitValue
    THEN AtoiDigits(hay, from + 1, 10 * acc + DigitValue[hay[from]])
    ELSE acc

RECURSIVE Atoi(_, _)
Atoi(hay, from) ==
    IF from > Len(hay) THEN 0
    ELSE IF hay[from] = " " THEN Atoi(hay, from + 1)
    ELSE IF hay[from] = "-" THEN 0 - AtoiDigits(hay, from + 1, 0)
    ELSE IF hay[from] = "+" THEN AtoiDigits(hay, from + 1, 0)
    ELSE AtoiDigits(hay, from, 0)

\* The characters as one string.
RECURSIVE Text(_)
Text(seq) == IF seq = <<>> THEN "" ELSE seq[1] \o Text(Tail(seq))

\* Lines 573-577 (583-587, 593-597): the value between the key marker and the
\* next quote; `found` is FALSE when the marker or the closing quote is absent.
Extract(json, key) ==
    LET pos == Find(json, key, 1)
        endPos == IF pos = 0 THEN 0 ELSE Find(json, <<"\"">>, pos + Len(key))
    IN  IF pos = 0 \/ endPos = 0
        THEN [found |-> FALSE, val |-> ""]
        ELSE [found |-> TRUE, val |-> Text(SubSeq(json, pos + Len(key), endPos - 1))]

\* The widths of UserRecord's password, group, name and email members, the
\* destinations of the strcpy_s calls of lines 578, 588, 598 and 684.
PasswordSize == 16
GroupSize == 16
NameSize == 128
EmailSize == 48

\* strcpy_s(user.field, value) for an extracted value: the field afterwards, and
\* whether the value does not fit (the invalid parameter handler is called and,
\* if it returns, the field is left empty).
Copied(old, x, size) ==
    IF ~x.found THEN old ELSE IF Len(x.val) < size THEN x.val ELSE ""
Overflows(x, size) == x.found /\ Len(x.val) >= size

\* UserRecord user = {0}, line 561.
ZeroUser ==
    [login |-> 0, name |-> "", email |-> "", balance |-> 0, credit |-> 0, leverage |-> 0,
     group |-> "", enable |-> 0, enable_change_password |-> 0, password |-> ""]

\* The record a request returns has every member of UserRecord.
Fetched(i) == [k \in DOMAIN ZeroUser |->
                 IF k \in DOMAIN UserAt(i) THEN UserAt(i)[k]
                 ELSE IF k = "enable_change_password" THEN 1 ELSE "secret"]

\* A variant of lines 566-605 in which an "enable" or "leverage" fragment of
\* jsonData replaces the fixed value.
KeyEnable == <<"\"", "e", "n", "a", "b", "l", "e", "\"", ":">>
KeyLeverage == <<"\"", "l", "e", "v", "e", "r", "a", "g", "e", "\"", ":">>
CreateUserRecordOverridable(json) ==
    LET pos == Find(json, KeyLogin, 1)
        en == Find(json, KeyEnable, 1)
        lev == Find(json, KeyLeverage, 1)
    IN  [ZeroUser EXCEPT
            !.login = IF pos = 0 THEN 0 ELSE Atoi(json, pos + Len(KeyLogin)),
            !.password = Copied("", Extract(json, KeyPassword), PasswordSize),
            !.group = Copied("", Extract(json, KeyGroup), GroupSize),
            !.name = Copied("", Extract(json, KeyName), NameSize),
            !.enable = IF en = 0 THEN 1 ELSE Atoi(json, en + Len(KeyEnable)),
            !.enable_change_password = 1,
            !.leverage = IF lev = 0 THEN 100 ELSE Atoi(json, lev + Len(KeyLeverage))]

\* Lines 566-605: the record MT4_CreateUser builds from jsonData.
CreateUserRecord(json) ==
    LET pos == Find(json, KeyLogin, 1)
    IN  [ZeroUser EXCEPT
            !.login = IF pos = 0 THEN 0 ELSE Atoi(json, pos + Len(KeyLogin)),
            !.password = Copied("", Extract(json, KeyPassword), PasswordSize),
            !.group = Copied("", Extract(json, KeyGroup), GroupSize),
            !.name = Copied("", Extract(json, KeyName), NameSize),
            !.enable = 1,
            !.enable_change_password = 1,
            !.leverage = 100]

CreateUserOverflows(json) ==
    \/ Overflows(Extract(json, KeyPassword), PasswordSize)
    \/ Overflows(Extract(json, KeyGroup), GroupSize)
    \/ Overflows(Extract(json, KeyName), NameSize)

\* A variant of lines 668-696 that builds the record anew, keeping only the
\* login of the fetched one.
UpdateUserRecordRebuilt(user, json) ==
    [ZeroUser EXCEPT
        !.login = user.login,
        !.name = Copied(user.name, Extract(json, KeyName), NameSize),
        !.email = Copied(user.email, Extract(json, KeyEmail), EmailSize),
        !.group = Copied(user.group, Extract(json, KeyGroup), GroupSize)]

\* Lines 668-696: the fetched record after MT4_UpdateUser's three replacements.
UpdateUserRecord(user, json) ==
    [user EXCEPT
        !.name = Copied(user.name, Extract(json, KeyName), NameSize),
        !.email = Copied(user.email, Extract(json, KeyEmail), EmailSize),
        !.group = Copied(user.group, Extract(json, KeyGroup), GroupSize)]

UpdateUserOverflows(json) ==
    \/ Overflows(Extract(json, KeyName), NameSize)
    \/ Overflows(Extract(json, KeyEmail), EmailSize)
    \/ Overflows(Extract(json, KeyGroup), GroupSize)

\* Line 613.
CreatedJson(login) == "{\"success\":true,\"login\":" \o ToString(login) \o "}"

\* ------------------------------------------------------------ MT4_CreateUser
\* Lines 607-637, once the record `user` is built.
CreateUserSends(ev, user, buf) ==
    LET name == "MT4_CreateUser"
        fixed == "Unknown error creating user"
    IN  /\ sent' = <<user>>
        /\ \E new \in CallOutcomes :
            CASE new = "ok" ->
                    Serializes(name, ev \o <<H("UserRecordNew", "RET_OK")>>,
                               CreatedJson(user.login), buf, FALSE, "Buffer too small", fixed)
              [] new = "fail" ->
                    Describes(name, MT4_ERROR_INTERNAL, ev \o <<H("UserRecordNew", "error")>>,
                              "Failed to create user", fixed)
              [] new = "throw" ->
                    Catches(name, ev \o <<H("UserRecordNew", "throw")>>, fixed)

\* Lines 558-605.
CreateUserTry(ev, json, buf) ==
    IF ~CreateUserOverflows(json)
    THEN CreateUserSends(ev, CreateUserRecord(json), buf)
    ELSE \E h \in HandlerOutcomes :
            IF h = "abort"
            THEN /\ sent' = <<>>
                 /\ Aborts("MT4_CreateUser", ev \o <<C("strcpy_s", "invalid parameter")>>)
            ELSE CreateUserSends(ev \o <<C("strcpy_s", "invalid parameter")>>,
                                 CreateUserRecord(json), buf)

MT4_CreateUser ==
    /\ Idle
    /\ UNCHANGED connected
    /\ \E json \in JsonInputs, buf \in Buffers :
        LET name == "MT4_CreateUser"
        IN  /\ args' = [jsonData |-> json, buffer |-> buf]
            /\ IF NotInitialized THEN sent' = <<>> /\ ReturnsNotInitialized(name)
               ELSE IF json = nullJson \/ BadBuffer(buf)
               THEN /\ sent' = <<>>
                    /\ Returns(name, MT4_ERROR_INVALID_PARAMETER, <<>>,
                               "Invalid parameters", NoText)
               ELSE \E ic \in IsConnectedOutcomes :
                    IF ~SafeIsConnected(ic)
                    THEN /\ sent' = <<>>
                         /\ Returns(name, MT4_ERROR_NOT_CONNECTED, SafeIsConnectedCalls(ic),
                                    "Not connected", NoText)
                    ELSE CreateUserTry(SafeIsConnectedCalls(ic), json, buf)

\* ------------------------------------------------ MT4_UpdateUser, MT4_DeleteUser
\* Lines 698-717 and 743-761: the update call and the mapping of its result.
UpdateSends(name, ev, user, fallback, fixed) ==
    /\ sent' = <<user>>
    /\ \E upd \in CallOutcomes :
        CASE upd = "ok" ->
                Returns(name, MT4_SUCCESS, ev \o <<H("UserRecordUpdate", "RET_OK")>>,
                        "", NoText)
          [] upd = "fail" ->
                Describes(name, MT4_ERROR_INTERNAL, ev \o <<H("UserRecordUpdate", "error")>>,
                          fallback, fixed)
          [] upd = "throw" ->
                Catches(name, ev \o <<H("UserRecordUpdate", "throw")>>, fixed)

\* Lines 658-663 and 734-739: what UserRecordGet does, and the end of the entry
\* point when it throws or returns an error.
FetchFails(name, ev, get, fixed) ==
    /\ sent' = <<>>
    /\ IF get = "throw"
       THEN Catches(name, ev \o <<H("UserRecordGet", "throw")>>, fixed)
       ELSE Returns(name, MT4_ERROR_INTERNAL, ev \o <<H("UserRecordGet", "error")>>,
                    "User not found", NoText)

\* Lines 665-717.
UpdateUserTry(ev, json) ==
    LET name == "MT4_UpdateUser"
        fixed == "Unknown error updating user"
        e == ev \o <<H("UserRecordGet", "RET_OK")>>
        user == UpdateUserRecord(Fetched(1), json)
    IN  \E get \in CallOutcomes :
            IF get # "ok" THEN FetchFails(name, ev, get, fixed)
            ELSE IF ~UpdateUserOverflows(json)
            THEN UpdateSends(name, e, user, "Failed to update user", fixed)
            ELSE \E h \in HandlerOutcomes :
                    IF h = "abort"
                    THEN /\ sent' = <<>>
                         /\ Aborts(name, e \o <<C("strcpy_s", "invalid parameter")>>)
                    ELSE UpdateSends(name, e \o <<C("strcpy_s", "invalid parameter")>>,
                                     user, "Failed to update user", fixed)

MT4_UpdateUser ==
    /\ Idle
    /\ UNCHANGED connected
    /\ \E json \in JsonInputs :
        LET name == "MT4_UpdateUser"
        IN  /\ args' = [login |-> UserAt(1).login, jsonData |-> json]
            /\ IF NotInitialized THEN sent' = <<>> /\ ReturnsNotInitialized(name)
               ELSE IF json = nullJson
               THEN /\ sent' = <<>>
                    /\ Returns(name, MT4_ERROR_INVALID_PARAMETER, <<>>,
                               "Invalid parameters", NoText)
               ELSE \E ic \in IsConnectedOutcomes :
                    IF ~SafeIsConnected(ic)
                    THEN /\ sent' = <<>>
                         /\ Returns(name, MT4_ERROR_NOT_CONNECTED, SafeIsConnectedCalls(ic),
                                    "Not connected", NoText)
                    ELSE UpdateUserTry(SafeIsConnectedCalls(ic), json)

\* Lines 731-761.
DeleteUserTry(ev) ==
    LET name == "MT4_DeleteUser"
        fixed == "Unknown error deleting user"
    IN  \E get \in CallOutcomes :
            IF get # "ok" THEN FetchFails(name, ev, get, fixed)
            ELSE UpdateSends(name, ev \o <<H("UserRecordGet", "RET_OK")>>,
                             [Fetched(1) EXCEPT !.enable = 0],
                             "Failed to disable user", fixed)

MT4_DeleteUser ==
    /\ Idle
    /\ UNCHANGED connected
    /\ args' = [login |-> UserAt(1).login]
    /\ LET name == "MT4_DeleteUser"
       IN  IF NotInitialized THEN sent' = <<>> /\ ReturnsNotInitialized(name)
           ELSE \E ic \in IsConnectedOutcomes :
                IF ~SafeIsConnected(ic)
                THEN /\ sent' = <<>>
                     /\ Returns(name, MT4_ERROR_NOT_CONNECTED, SafeIsConnectedCalls(ic),
                                "Not connected", NoText)
                ELSE DeleteUserTry(SafeIsConnectedCalls(ic))

\* --------------------------------------------------------------- MT4_GetQuote
\* Prices are whole numbers of the quote currency; a SymbolInfo or TickInfo the
\* remote fills in either carries prices or is all zero.
QuotedInfo == [bid |-> 11, ask |-> 13, spread |-> 2, digits |-> 2, lasttime |-> 1700000000]
ZeroInfo == [bid |-> 0, ask |-> 0, spread |-> 0, digits |-> 0, lasttime |-> 0]
LastTick == [bid |-> 11, ask |-> 13, ctm |-> 1700000001]

\* time(NULL) at line 904.
Now == 1700000002

RECURSIVE Pow10(_)
Pow10(n) == IF n = 0 THEN 1 ELSE 10 * Pow10(n - 1)

\* Lines 861-869, 897-905 and 926-934.
QuoteJson(symbol, bid, ask, spread, digits, time) ==
    "{\"symbol\":\"" \o symbol \o "\",\"bid\":" \o ToString(bid) \o ",\"ask\":"
    \o ToString(ask) \o ",\"spread\":" \o ToString(spread) \o ",\"digits\":"
    \o ToString(digits) \o ",\"time\":" \o ToString(time) \o "}"

\* Lines 871-879, 907-915 and 936-950: the length check and the copy; `ticks` is
\* TRUE on the path that holds the array TickInfoLast returned.
QuoteSerializes(ev, json, buf, ticks) ==
    LET name == "MT4_GetQuote"
        copied == ev \o <<C("strcpy_s", json)>>
    IN  IF Len(json) >= buf.size
        THEN Returns(name, MT4_ERROR_BUFFER_TOO_SMALL, ev,
                     "Buffer too small for quote data", NoText)
        ELSE IF ~ticks
        THEN Returns(name, MT4_SUCCESS, copied, "", json)
        ELSE \E free \in MemFreeOutcomes :
                IF free = "throw"
                THEN \E kind \in Throws :
                        Returns(name, MT4_ERROR_INTERNAL, copied \o <<H("MemFree", "throw")>>,
                                Caught(kind, "Unknown error getting quote"), json)
                ELSE Returns(name, MT4_SUCCESS, copied \o <<H("MemFree", "ok")>>, "", json)

\* What SymbolInfoUpdated reports for the symbol: it throws, the symbol is not in
\* the list, or it is, with or without prices.
UpdatedOutcomes == {"throw", "absent", "zero", "quoted"}

\* What SymbolInfoGet does: its status and the record it leaves in symbolInfo.
InfoGetOutcomes ==
    {[ret |-> "throw", info |-> ZeroInfo], [ret |-> "fail", info |-> ZeroInfo],
     [ret |-> "ok", info |-> ZeroInfo], [ret |-> "ok", info |-> QuotedInfo]}

\* Lines 886-916: TickInfoLast gave no tick.
QuoteFallback(ev, symbol, buf) ==
    LET name == "MT4_GetQuote"
    IN  \E g \in InfoGetOutcomes :
            CASE g.ret = "throw" ->
                    Catches(name, ev \o <<H("SymbolInfoGet", "throw")>>,
                            "Unknown error getting quote")
              [] g.ret = "fail" ->
                    Returns(name, MT4_ERROR_INTERNAL, ev \o <<H("SymbolInfoGet", "error")>>,
                            "No price data available for symbol", NoText)
              [] g.ret = "ok" ->
                    QuoteSerializes(ev \o <<H("SymbolInfoGet", "RET_OK"),
                                             O("symbolInfo", IF g.info = ZeroInfo
                                                             THEN "zero" ELSE "quoted")>>,
                                    QuoteJson(symbol, g.info.bid, g.info.ask, g.info.spread,
                                              g.info.digits, Now),
                                    buf, FALSE)

\* Lines 918-950: the most recent tick, with the digits SymbolInfoGet reports.
QuoteFromTick(ev, symbol, buf) ==
    LET name == "MT4_GetQuote"
        tick == LastTick
    IN  \E g \in InfoGetOutcomes :
            IF g.ret = "throw"
            THEN Catches(name, ev \o <<H("SymbolInfoGet", "throw")>>,
                         "Unknown error getting quote")
            ELSE QuoteSerializes(
                    ev \o <<H("SymbolInfoGet", IF g.ret = "ok" THEN "RET_OK" ELSE "error")>>,
                    QuoteJson(symbol, tick.bid, tick.ask,
                              (tick.ask - tick.bid) * Pow10(g.info.digits),
                              g.info.digits, tick.ctm),
                    buf, TRUE)

\* Lines 845-959.
QuoteTry(ev, symbol, buf) ==
    LET name == "MT4_GetQuote"
        fixed == "Unknown error getting quote"
    IN  \E upd \in UpdatedOutcomes :
            LET e1 == ev \o <<H("SymbolInfoUpdated", upd)>>
            IN  CASE upd = "throw" -> Catches(name, e1, fixed)
                  [] upd = "quoted" ->
                        QuoteSerializes(e1, QuoteJson(symbol, QuotedInfo.bid, QuotedInfo.ask,
                                                      QuotedInfo.spread, QuotedInfo.digits,
                                                      QuotedInfo.lasttime),
                                        buf, FALSE)
                  [] upd \in {"absent", "zero"} ->
                        \/ Catches(name, e1 \o <<H("TickInfoLast", "throw")>>, fixed)
                        \/ \E r \in RequestOutcomes :
                            LET e2 == e1 \o <<H("TickInfoLast",
                                                IF r.ptr THEN "array" ELSE "nullptr"),
                                              O("total", ToString(r.total))>>
                            IN  IF ~r.ptr \/ r.total = 0
                                THEN QuoteFallback(e2, symbol, buf)
                                ELSE QuoteFromTick(e2, symbol, buf)

QuoteSymbols == {nullptr, "EURUSD"}

MT4_GetQuote ==
    /\ Idle
    /\ sent' = <<>>
    /\ UNCHANGED connected
    /\ \E symbol \in QuoteSymbols, buf \in Buffers :
        LET name == "MT4_GetQuote"
        IN  /\ args' = [symbol |-> symbol, buffer |-> buf]
            /\ IF NotInitialized THEN ReturnsNotInitialized(name)
               ELSE \E ic \in IsConnectedOutcomes :
                    IF ~SafeIsConnected(ic)
                    THEN Returns(name, MT4_ERROR_NOT_CONNECTED, SafeIsConnectedCalls(ic),
                                 "Not connected to MT4 server", NoText)
                    ELSE IF symbol = nullptr \/ BadBuffer(buf)
                    THEN Returns(name, MT4_ERROR_INVALID_PARAMETER, SafeIsConnectedCalls(ic),
                                 "Invalid parameters", NoText)
                    ELSE QuoteTry(SafeIsConnectedCalls(ic), symbol, buf)

\* ------------------------------------------------------------------ the caller
\* The caller takes the result of the call (or handles the exception that left
\* it) and is free to make the next call.
Return ==
    /\ op # "none"
    /\ exit # "aborted"
    /\ op' = "none"
    /\ args' = NoArgs
    /\ exit' = "returned"
    /\ result' = 0
    /\ calls' = <<>>
    /\ text' = NoText
    /\ sent' = <<>>
    /\ UNCHANGED <<session, connected, g_lastError>>

Next ==
    \/ MT4_Initialize
    \/ MT4_Shutdown
    \/ MT4_Connect
    \/ MT4_Login
    \/ MT4_Disconnect
    \/ MT4_IsConnected
    \/ MT4_GetLastError
    \/ MT4_Ping
    \/ MT4_GetUserInfo
    \/ MT4_GetAllUsers
    \/ MT4_GetTrades
    \/ MT4_GetSymbols
    \/ MT4_OpenTrade
    \/ MT4_CloseTrade
    \/ MT4_CreateUser
    \/ MT4_UpdateUser
    \/ MT4_DeleteUser
    \/ MT4_GetQuote
    \/ Return

Spec == Init /\ [][Next]_vars

\* ================================================================ properties
\* The entry points that return a status code and sit behind the guard
\* `!g_initialized || !g_pManager`.
SessionOps ==
    {"MT4_Connect", "MT4_Login", "MT4_Disconnect", "MT4_Ping", "MT4_GetUserInfo",
     "MT4_GetAllUsers", "MT4_CreateUser", "MT4_UpdateUser", "MT4_DeleteUser",
     "MT4_GetTrades", "MT4_OpenTrade", "MT4_CloseTrade", "MT4_GetSymbols", "MT4_GetQuote"}

\* The entry points that return a status code.
StatusOps == SessionOps \cup {"MT4_Initialize"}

\* The entry points that require a connected session.
ConnectedOps ==
    {"MT4_Ping", "MT4_OpenTrade", "MT4_CloseTrade", "MT4_CreateUser", "MT4_UpdateUser",
     "MT4_DeleteUser", "MT4_GetQuote"}

OnHandle(ev) == {i \in 1..Len(ev) : ev[i].on = "handle"}

\* The first position of event `e` in `ev`, or 0.
Pos(ev, e) ==
    IF e \in Range(ev) THEN CHOOSE i \in 1..Len(ev) : ev[i] = e /\ \A j \in 1..(i - 1) : ev[j] # e
    ELSE 0

\* If both events occur in `ev`, `a` occurs first.
Before(ev, a, b) == Pos(ev, a) = 0 \/ Pos(ev, b) = 0 \/ Pos(ev, a) < Pos(ev, b)

\* C1: whenever the initialized flag is clear (before any successful initialize,
\* after a failed initialize, after a shutdown that ran to its end), each of the
\* fourteen session operations returns MT4_ERROR_NOT_INITIALIZED and makes no
\* call on the capability handle.
C1_UninitializedRejects ==
    [][(~g_initialized /\ op' \in SessionOps)
        => /\ exit' = "returned"
           /\ result' = MT4_ERROR_NOT_INITIALIZED
           /\ OnHandle(calls') = {}]_vars

\* A session operation was rejected after the session had been set up and torn down.
C1_Witness ==
    /\ op = "MT4_GetQuote"
    /\ result = MT4_ERROR_NOT_INITIALIZED
    /\ ~g_initialized
    /\ counts.lifecycle >= 2
    /\ counts.handle = 0
    /\ counts.wsa = 0

\* C2: MT4_Initialize called on an initialized session returns
\* MT4_ERROR_ALREADY_INITIALIZED, leaves provider, handle, flag and remote
\* connection state as they were, and performs no network-subsystem start, no
\* provider construction and no handle creation.
C2_SecondInitializeRejected ==
    [][(g_initialized /\ op' = "MT4_Initialize")
        => /\ result' = MT4_ERROR_ALREADY_INITIALIZED
           /\ UNCHANGED <<g_pFactory, g_pManager, g_initialized, connected, counts>>
           /\ \A i \in 1..Len(calls') : calls'[i].on \notin {"winsock", "provider", "handle"}]_vars

\* A second MT4_Initialize was rejected on a connected session.
C2_Witness ==
    /\ op = "MT4_Initialize"
    /\ result = MT4_ERROR_ALREADY_INITIALIZED
    /\ g_initialized /\ g_pManager /\ g_pFactory
    /\ connected

\* C3: an MT4_Initialize call that returns an error other than
\* MT4_ERROR_ALREADY_INITIALIZED returns MT4_ERROR_INTERNAL and leaves the flag
\* clear, the provider absent and the handle absent; and MT4_Initialize on a
\* session whose flag is clear is never answered MT4_ERROR_ALREADY_INITIALIZED.
C3_InitializeAllOrNothing ==
    [][(op' = "MT4_Initialize")
        => /\ (result' \notin {MT4_SUCCESS, MT4_ERROR_ALREADY_INITIALIZED}
                => /\ result' = MT4_ERROR_INTERNAL
                   /\ ~g_initialized' /\ ~g_pFactory' /\ ~g_pManager')
           /\ (~g_initialized => result' # MT4_ERROR_ALREADY_INITIALIZED)]_vars

\* MT4_Initialize failed at its last step, the creation of the handle, after an
\* earlier lifecycle call.
C3_Witness ==
    /\ op = "MT4_Initialize"
    /\ result = MT4_ERROR_INTERNAL
    /\ \E e \in Range(calls) : e.call = "Create" /\ e.out \in {"nullptr", "throw"}
    /\ P("delete", "ok") \in Range(calls)
    /\ counts.lifecycle >= 2

\* C4: in every reachable state the handle is live only if the provider is live,
\* and the initialized flag is set only if both are live.
C4_HandleWithinProvider ==
    /\ g_pManager => g_pFactory
    /\ g_initialized => (g_pManager /\ g_pFactory)

\* C5: in every MT4_Shutdown the teardown events that occur do so in the order
\* handle release, provider stop, provider destroy, clearing of the flag, clearing
\* of the last-error text, process-wide network stop; a shutdown of an initialized
\* session that runs to its end performs all of them and ends with the network
\* stop; and the provider is never destroyed while the handle is live.
C5_TeardownOrder ==
    [][(op' = "MT4_Shutdown")
        => LET ev == calls'
               order == <<H("Release", "ok"), P("WinsockCleanup", "ok"), P("delete", "ok"),
                          G("g_initialized", "false"), Err(""), W("WSACleanup", "ok")>>
           IN  /\ \A i, j \in 1..Len(order) : i < j => Before(ev, order[i], order[j])
               /\ (g_initialized /\ g_pManager /\ g_pFactory /\ exit' = "returned")
                    => /\ \A i \in 1..Len(order) : order[i] \in Range(ev)
                       /\ ev[Len(ev)] = W("WSACleanup", "ok")
               /\ (g_pManager /\ P("delete", "ok") \in Range(ev))
                    => /\ H("Release", "ok") \in Range(ev)
                       /\ Pos(ev, H("Release", "ok")) < Pos(ev, P("delete", "ok"))]_vars

\* An initialized, connected session was shut down to its end.
C5_Witness ==
    /\ op = "MT4_Shutdown"
    /\ exit = "returned"
    /\ H("Release", "ok") \in Range(calls)
    /\ P("delete", "ok") \in Range(calls)
    /\ ~g_initialized /\ ~g_pManager /\ ~g_pFactory

\* C6: MT4_Shutdown, called in any state, runs to its end and leaves the flag
\* clear, provider and handle absent and the last-error text empty; and neither
\* the handle nor the provider is released more often than it was created.
C6_ShutdownAlwaysCompletes ==
    [][(op' = "MT4_Shutdown")
        => /\ exit' = "returned"
           /\ ~g_initialized' /\ ~g_pFactory' /\ ~g_pManager'
           /\ g_lastError' = ""
           /\ counts'.handle >= 0
           /\ counts'.factory >= 0]_vars

\* C7: the stops of the network subsystem (WSACleanup, WinsockCleanup) never
\* outnumber the starts (WSAStartup, WinsockStartup), and the numbers are equal
\* whenever the flag is clear after a call that ran to its end.
C7_NetworkBalanced ==
    /\ counts.wsa >= 0
    /\ counts.winsock >= 0
    /\ (~g_initialized /\ exit = "returned") => (counts.wsa = 0 /\ counts.winsock = 0)

\* C8: after an operation that returns MT4_SUCCESS the last-error text is empty.
C8_SuccessClearsError ==
    [][(op' \in StatusOps /\ exit' = "returned" /\ result' = MT4_SUCCESS)
        => g_lastError' = ""]_vars

\* C9: after an operation that returns a failure code the last-error text is a
\* non-empty message which that operation stored.
C9_FailureLeavesMessage ==
    [][(op' \in StatusOps /\ exit' = "returned" /\ result' # MT4_SUCCESS)
        => /\ g_lastError' # ""
           /\ Err(g_lastError') \in Range(calls')]_vars

\* The arguments pass the entry point's parameter check.
ValidArgs(name, a) ==
    CASE name = "MT4_OpenTrade" -> a.symbol # nullptr /\ ~BadBuffer(a.buffer)
      [] name = "MT4_CreateUser" -> a.jsonData # nullJson /\ ~BadBuffer(a.buffer)
      [] name = "MT4_UpdateUser" -> a.jsonData # nullJson
      [] name = "MT4_GetQuote" -> a.symbol # nullptr /\ ~BadBuffer(a.buffer)
      [] OTHER -> TRUE

\* C10: on an initialized session whose remote reports not connected, or whose
\* connected check throws, each connected-only operation called with valid
\* arguments returns MT4_ERROR_NOT_CONNECTED and calls nothing on the handle but
\* IsConnected.
C10_NotConnectedFailsFast ==
    [][(/\ g_initialized /\ g_pManager
        /\ op' \in ConnectedOps
        /\ ValidArgs(op', args')
        /\ (~connected \/ H("IsConnected", "throw") \in Range(calls')))
        => /\ result' = MT4_ERROR_NOT_CONNECTED
           /\ \A i \in OnHandle(calls') : calls'[i].call = "IsConnected"
           /\ sent' = <<>>]_vars

\* An order was refused on a connected session because the connected check threw.
C10_Witness ==
    /\ op = "MT4_OpenTrade"
    /\ ValidArgs(op, args)
    /\ connected
    /\ H("IsConnected", "throw") \in Range(calls)
    /\ result = MT4_ERROR_NOT_CONNECTED

\* The arguments pass the null and capacity tests of the entry point (lines 132,
\* 179, 257, 310, 367, 436, 548, 646, 770, 840): no absent string, no absent
\* buffer, no capacity <= 0.
ParamsOk(name, a) ==
    CASE name = "MT4_Connect" -> a.server # nullptr
      [] name = "MT4_Login" -> a.password # nullptr
      [] name \in {"MT4_GetUserInfo", "MT4_GetAllUsers", "MT4_GetTrades", "MT4_GetSymbols"} ->
            ~BadBuffer(a.buffer)
      [] name \in {"MT4_OpenTrade", "MT4_GetQuote"} ->
            a.symbol # nullptr /\ ~BadBuffer(a.buffer)
      [] name = "MT4_CreateUser" -> a.jsonData # nullJson /\ ~BadBuffer(a.buffer)
      [] name = "MT4_UpdateUser" -> a.jsonData # nullJson
      [] OTHER -> TRUE

\* C11: on an initialized session, an operation called with an absent string, an
\* absent buffer or a capacity <= 0 returns MT4_ERROR_INVALID_PARAMETER and has
\* made no call on the capability handle, IsConnected included.
C11_ParametersBeforeRemote ==
    [][(g_initialized /\ g_pManager /\ op' \in SessionOps /\ ~ParamsOk(op', args'))
        => /\ result' = MT4_ERROR_INVALID_PARAMETER
           /\ OnHandle(calls') = {}]_vars

\* The calls on the provider or the handle that threw during the events `ev`.
Thrown(ev) == {i \in 1..Len(ev) : ev[i].on \in {"provider", "handle"} /\ ev[i].out = "throw"}

\* C12: when a call made on the remote library during an operation throws, the
\* operation still returns to its caller, MT4_Shutdown and MT4_IsConnected
\* included; a status-returning operation returns MT4_ERROR_INTERNAL (a throw of
\* the connected check alone is answered as not connected and is not held
\* against the code here).
C12_NoFaultEscapes ==
    [][(op' # "none" /\ Thrown(calls') # {})
        => /\ exit' = "returned"
           /\ (/\ op' \in StatusOps
               /\ \E i \in Thrown(calls') : calls'[i].call # "IsConnected")
                => result' = MT4_ERROR_INTERNAL]_vars

\* C13: on an initialized session MT4_Connect with an empty server address
\* returns MT4_ERROR_INVALID_PARAMETER and calls neither Connect nor
\* WorkingDirectory on the handle.
C13_EmptyAddressRejected ==
    [][(g_initialized /\ g_pManager /\ op' = "MT4_Connect" /\ args'.server = "")
        => /\ result' = MT4_ERROR_INVALID_PARAMETER
           /\ \A i \in OnHandle(calls') : calls'[i].call \notin {"Connect", "WorkingDirectory"}]_vars

\* The remote call MT4_Connect / MT4_Login exists for, the code it returns when
\* that call reports an error, and the message it stores when the remote has no
\* description.
SessionCall ==
    [MT4_Connect |-> [call |-> "Connect", failed |-> MT4_ERROR_CONNECTION_FAILED,
                      fallback |-> "Connection failed"],
     MT4_Login |-> [call |-> "Login", failed |-> MT4_ERROR_LOGIN_FAILED,
                    fallback |-> "Login failed"]]

\* The arguments are present, and the server address is not empty.
Addressed(name, a) == ParamsOk(name, a) /\ (name = "MT4_Connect" => a.server # "")

\* How often the events `ev` call `call` on the handle.
Invocations(ev, call) == Cardinality({i \in OnHandle(ev) : ev[i].call = call})

\* C14 as stated: on an initialized session with valid arguments, MT4_Connect
\* (MT4_Login) returns MT4_SUCCESS exactly when the remote Connect (Login)
\* returns RET_OK and MT4_ERROR_CONNECTION_FAILED (MT4_ERROR_LOGIN_FAILED) exactly
\* when it returns another status; the last-error text is then the remote's
\* description when there is one; the session stays initialized; and the remote
\* call is made exactly once.
C14_AsStated ==
    [][(g_initialized /\ g_pManager /\ op' \in DOMAIN SessionCall /\ Addressed(op', args'))
        => LET c == SessionCall[op']
           IN  /\ result' = MT4_SUCCESS <=> H(c.call, "RET_OK") \in Range(calls')
               /\ result' = c.failed <=> H(c.call, "error") \in Range(calls')
               /\ H("ErrorDescription", "text") \in Range(calls')
                    => g_lastError' = RemoteDescription
               /\ UNCHANGED <<g_initialized, g_pManager, g_pFactory>>
               /\ Invocations(calls', c.call) = 1]_vars

\* C14, amended: as above, except that a status other than RET_OK is answered
\* with MT4_ERROR_CONNECTION_FAILED (MT4_ERROR_LOGIN_FAILED) exactly when the
\* ErrorDescription query that follows does not throw (MT4_ERROR_INTERNAL when
\* it does), the text stored when the remote has no description is the fixed
\* fallback, and the remote call is made at most once: exactly once unless the
\* WorkingDirectory hint before it throws.
C14_ConnectLoginMapping ==
    [][(g_initialized /\ g_pManager /\ op' \in DOMAIN SessionCall /\ Addressed(op', args'))
        => LET c == SessionCall[op']
               ev == calls'
           IN  /\ result' = MT4_SUCCESS <=> H(c.call, "RET_OK") \in Range(ev)
               /\ result' = c.failed
                    <=> /\ H(c.call, "error") \in Range(ev)
                        /\ H("ErrorDescription", "throw") \notin Range(ev)
               /\ (H(c.call, "error") \in Range(ev) /\ H("ErrorDescription", "throw") \in Range(ev))
                    => result' = MT4_ERROR_INTERNAL
               /\ H("ErrorDescription", "text") \in Range(ev)
                    => g_lastError' = RemoteDescription
               /\ H("ErrorDescription", "nullptr") \in Range(ev)
                    => g_lastError' = c.fallback
               /\ UNCHANGED <<g_initialized, g_pManager, g_pFactory>>
               /\ Invocations(ev, c.call) <= 1
               /\ Invocations(ev, c.call) = 0
                    <=> H("WorkingDirectory", "throw") \in Range(ev)]_vars

\* The remote refused a connection and described why.
C14_Witness ==
    /\ op = "MT4_Connect"
    /\ Addressed(op, args)
    /\ result = MT4_ERROR_CONNECTION_FAILED
    /\ H("Connect", "error") \in Range(calls)
    /\ g_lastError = RemoteDescription
    /\ g_initialized

\* The entry points that write a text to the caller's buffer.
StringOps ==
    {"MT4_GetUserInfo", "MT4_GetAllUsers", "MT4_GetTrades", "MT4_GetSymbols",
     "MT4_OpenTrade", "MT4_CreateUser", "MT4_GetQuote"}

\* C15: a string-returning operation that returns MT4_ERROR_BUFFER_TOO_SMALL has
\* not written to the caller's buffer, and one that has written a text of length
\* L to a buffer of capacity C did so only with L + 1 < C (a text with
\* L + 1 >= C is answered with MT4_ERROR_BUFFER_TOO_SMALL).
C15_RefusesUnlessRoom ==
    [][(op' \in StringOps /\ exit' = "returned")
        => /\ result' = MT4_ERROR_BUFFER_TOO_SMALL => text' = NoText
           /\ text' # NoText => Len(text') + 1 < args'.buffer.size]_vars

\* The entry points that list records.
ListOps == {"MT4_GetAllUsers", "MT4_GetTrades", "MT4_GetSymbols"}

\* The record request of the events `ev` yielded no record: a null array or a
\* total of 0.
EmptySet(ev) ==
    \/ \E i \in OnHandle(ev) : ev[i].out = "nullptr"
    \/ O("total", "0") \in Range(ev)

\* C16: a list operation called on an initialized session with a non-null buffer
\* of capacity >= 1 whose request yields no record returns MT4_SUCCESS with
\* exactly "[]" in the buffer, at capacities 1 and 2 too.
C16_EmptyListIsSuccess ==
    [][(/\ g_initialized /\ g_pManager
        /\ op' \in ListOps
        /\ ParamsOk(op', args')
        /\ EmptySet(calls'))
        => /\ exit' = "returned"
           /\ result' = MT4_SUCCESS
           /\ text' = "[]"]_vars

\* The record requests of the events `ev` that returned an array owned by the
\* remote library.
Arrays(ev) == {i \in OnHandle(ev) : ev[i].out = "array"}

\* C17: every array a record request returned is released with MemFree exactly
\* once before the operation ends, on every exit path.
C17_ArraysFreedOnce ==
    [][(op' # "none")
        => Invocations(calls', "MemFree") = Cardinality(Arrays(calls'))]_vars

\* The caps and the element texts of the three list operations.
ListCap == [MT4_GetAllUsers |-> 100, MT4_GetTrades |-> 100, MT4_GetSymbols |-> 50]
ListItems ==
    [MT4_GetAllUsers |-> UserItems, MT4_GetTrades |-> TradeItems,
     MT4_GetSymbols |-> SymbolItems]

\* Elements `from`..`to` of `items` in order, each but the first of the array
\* preceded by a comma; taken ten at a time.
RECURSIVE Run(_, _, _)
Run(items, from, to) ==
    IF from > to THEN ""
    ELSE (IF from > 1 THEN "," ELSE "") \o items[from] \o Run(items, from + 1, to)

RECURSIVE Elements(_, _, _)
Elements(items, from, to) ==
    IF to - from < 10 THEN Run(items, from, to)
    ELSE Run(items, from, from + 9) \o Elements(items, from + 10, to)

\* The array of the first min(n, cap) records of a source of n records.
FirstRecords ==
    [name \in ListOps |->
        [n \in Totals \cup {0} |->
            "[" \o Elements(ListItems[name], 1, Min(n, ListCap[name])) \o "]"]]

\* The size of the source: the total the record request of `ev` reported.
SourceSize(ev) == CHOOSE n \in Totals \cup {0} : O("total", ToString(n)) \in Range(ev)

\* C18: for a source of N records, a list operation whose capped text has room
\* in the caller's buffer, and in which no remote call throws, returns
\* MT4_SUCCESS with the array of the first min(N, 100) records (min(N, 50) for
\* MT4_GetSymbols) in source order; a source larger than the cap is no failure.
C18_ListsAreCapped ==
    [][(/\ g_initialized /\ g_pManager
        /\ op' \in ListOps
        /\ ParamsOk(op', args')
        /\ \E n \in Totals \cup {0} : O("total", ToString(n)) \in Range(calls')
        /\ Thrown(calls') = {})
        => LET expected == FirstRecords[op'][SourceSize(calls')]
           IN  /\ Len(expected) + 1 <= args'.buffer.size
                    => result' = MT4_SUCCESS /\ text' = expected
               /\ exit' = "returned" /\ result' = MT4_SUCCESS /\ text' # ""
                    => text' = expected]_vars

\* A source of more accounts than the cap was listed: the first 100 of them,
\* successfully.
C18_Witness ==
    /\ op = "MT4_GetAllUsers"
    /\ exit = "returned"
    /\ MaxTotal > ListCap[op]
    /\ O("total", ToString(MaxTotal)) \in Range(calls)
    /\ result = MT4_SUCCESS
    /\ text = FirstRecords[op][MaxTotal]
    /\ text # ListJsonUncapped(UserItems, MaxTotal, ListCap[op])

\* C19: on a connected session, an MT4_CloseTrade whose TradeRecordGet returns a
\* status other than RET_OK returns MT4_ERROR_INTERNAL with the last-error text
\* "Trade not found", and neither calls TradeTransaction nor sends a request.
C19_UnknownOrderNotClosed ==
    [][(op' = "MT4_CloseTrade" /\ H("TradeRecordGet", "error") \in Range(calls'))
        => /\ exit' = "returned"
           /\ result' = MT4_ERROR_INTERNAL
           /\ g_lastError' = "Trade not found"
           /\ Invocations(calls', "TradeTransaction") = 0
           /\ sent' = <<>>]_vars

\* A close whose record fetch failed has returned, on a session found connected.
C19_Witness ==
    /\ op = "MT4_CloseTrade"
    /\ H("IsConnected", "true") \in Range(calls)
    /\ H("TradeRecordGet", "error") \in Range(calls)
    /\ result = MT4_ERROR_INTERNAL
    /\ g_lastError = "Trade not found"

\* No source had a price during the events `ev`: SymbolInfoUpdated did not list
\* the symbol with a positive bid or ask, TickInfoLast gave no tick, and
\* SymbolInfoGet failed or left bid and ask zero.
NoPriceData(ev) ==
    /\ \E u \in {"absent", "zero"} : H("SymbolInfoUpdated", u) \in Range(ev)
    /\ H("TickInfoLast", "nullptr") \in Range(ev) \/ O("total", "0") \in Range(ev)
    /\ H("SymbolInfoGet", "error") \in Range(ev) \/ O("symbolInfo", "zero") \in Range(ev)

\* The quote of `symbol` whose bid and ask are both zero.
ZeroQuote(symbol) ==
    QuoteJson(symbol, ZeroInfo.bid, ZeroInfo.ask, ZeroInfo.spread, ZeroInfo.digits, Now)

\* C20: on a connected session, an MT4_GetQuote for which no source had a price
\* (and whose buffer would hold a quote) returns MT4_ERROR_INTERNAL and writes no
\* quote; MT4_GetQuote never returns MT4_SUCCESS with a quote whose bid and ask
\* are both zero.
C20_NoPriceIsAnError ==
    [][(op' = "MT4_GetQuote" /\ exit' = "returned")
        => /\ (NoPriceData(calls') /\ Len(ZeroQuote(args'.symbol)) + 1 < args'.buffer.size)
                => result' = MT4_ERROR_INTERNAL /\ text' = NoText
           /\ result' = MT4_SUCCESS => text' # ZeroQuote(args'.symbol)]_vars

\* C21: the request MT4_OpenTrade passes to TradeTransaction carries the volume
\* round(lots * 100) -- the caller's lots in whole hundredths (1.5 -> 150,
\* 0.01 -> 1, 0.29 -> 29) -- and so does the request of an MT4_CloseTrade called
\* with positive lots.
C21_VolumeIsRounded ==
    [][(op' \in {"MT4_OpenTrade", "MT4_CloseTrade"} /\ sent' # <<>> /\ args'.lots > 0)
        => sent'[1].volume = args'.lots]_vars

\* Whether the characters `key` occur in the text `json`.
Occurs(json, key) ==
    \E i \in 1..Len(json) : i + Len(key) - 1 <= Len(json) /\ SubSeq(json, i, i + Len(key) - 1) = key

\* The login each caller text carries.
LoginOf(json) ==
    CASE json = JsonSpecExample -> 4242
      [] json = JsonOverrides -> 7
      [] json = JsonLongPassword -> 9
      [] OTHER -> 0

\* C22: the record MT4_CreateUser passes to UserRecordNew has enable = 1,
\* enable_change_password = 1 and leverage = 100 whatever jsonData holds; a
\* member whose key marker does not occur in jsonData keeps its zero value, and
\* that is no error: when UserRecordNew returns RET_OK and the response has room
\* in the buffer, the operation returns MT4_SUCCESS and the text carries the
\* login parsed from jsonData.
C22_CreateDefaults ==
    [][(op' = "MT4_CreateUser" /\ sent' # <<>>)
        => LET user == sent'[1]
               json == args'.jsonData
               response == "{\"success\":true,\"login\":" \o ToString(LoginOf(json)) \o "}"
           IN  /\ user.enable = 1
               /\ user.enable_change_password = 1
               /\ user.leverage = 100
               /\ ~Occurs(json, KeyLogin) => user.login = 0
               /\ ~Occurs(json, KeyPassword) => user.password = ""
               /\ ~Occurs(json, KeyGroup) => user.group = ""
               /\ ~Occurs(json, KeyName) => user.name = ""
               /\ user.email = "" /\ user.balance = 0 /\ user.credit = 0
               /\ (/\ H("UserRecordNew", "RET_OK") \in Range(calls')
                   /\ Len(response) + 1 <= args'.buffer.size)
                    => /\ exit' = "returned"
                       /\ result' = MT4_SUCCESS
                       /\ text' = response]_vars

\* The account of the text {"login":4242,"password":"x","group":"g"} was created:
\* no "name" marker, the name left empty, and the login in the output.
C22_Witness ==
    /\ op = "MT4_CreateUser"
    /\ args.jsonData = JsonSpecExample
    /\ H("IsConnected", "true") \in Range(calls)
    /\ H("UserRecordNew", "RET_OK") \in Range(calls)
    /\ sent # <<>>
    /\ sent[1].name = "" /\ sent[1].leverage = 100 /\ sent[1].login = 4242
    /\ result = MT4_SUCCESS
    /\ text = "{\"success\":true,\"login\":4242}"

\* C23: MT4_IsConnected always returns, with 0 or 1; it returns 0 when the
\* session is not initialized, the handle is absent or the remote IsConnected
\* throws; it returns 1 only when the session is initialized and the remote
\* reports connected; and it leaves the initialized flag, both handles and the
\* last-error text as they were.
C23_IsConnectedTotal ==
    [][(op' = "MT4_IsConnected")
        => /\ exit' = "returned"
           /\ result' \in {0, 1}
           /\ (~g_initialized \/ ~g_pManager \/ Thrown(calls') # {}) => result' = 0
           /\ result' = 1 => /\ g_initialized /\ g_pManager
                             /\ calls' = <<H("IsConnected", "true")>>
           /\ g_initialized' = g_initialized
           /\ g_pManager' = g_pManager
           /\ g_pFactory' = g_pFactory
           /\ g_lastError' = g_lastError]_vars

\* MT4_IsConnected answered 0 because the remote IsConnected threw, on a session
\* that holds an error text from an earlier call.
C23_Witness ==
    /\ op = "MT4_IsConnected"
    /\ exit = "returned"
    /\ result = 0
    /\ calls = <<H("IsConnected", "throw")>>
    /\ g_initialized /\ g_pManager
    /\ g_lastError # ""

\* C24: an MT4_CloseTrade whose TradeRecordGet returns RET_OK calls
\* TradeTransaction exactly once, with a close request for the caller's order
\* and the fetched record's symbol; its volume is round(lots * 100) when lots > 0
\* and the record's volume otherwise; its price is the caller's when price > 0
\* and the record's close price otherwise; its direction is OP_BUY whatever the
\* record's direction.
C24_CloseRequestFields ==
    [][(op' = "MT4_CloseTrade" /\ H("TradeRecordGet", "RET_OK") \in Range(calls'))
        => /\ Invocations(calls', "TradeTransaction") = 1
           /\ Len(sent') = 1
           /\ sent'[1].type = "TT_ORDER_CLOSE_BY"
           /\ sent'[1].order = args'.order
           /\ sent'[1].symbol = TradeAt(1).symbol
           /\ sent'[1].volume = IF args'.lots > 0 THEN args'.lots ELSE TradeAt(1).volume
           /\ sent'[1].price = IF args'.price > 0 THEN args'.price ELSE TradeAt(1).close_price
           /\ sent'[1].cmd = "OP_BUY"]_vars

\* Whether `key` occurs in the text `json` with a quote somewhere after it.
Closed(json, key) ==
    \E i \in 1..Len(json) :
        /\ i + Len(key) - 1 <= Len(json)
        /\ SubSeq(json, i, i + Len(key) - 1) = key
        /\ \E k \in (i + Len(key))..Len(json) : json[k] = "\""

\* The name, email and group each caller text gives.
Given(json) ==
    CASE json = JsonSpecExample -> [name |-> "", email |-> "", group |-> "g"]
      [] json = JsonOverrides -> [name |-> "Al", email |-> "", group |-> ""]
      [] json = JsonContact -> [name |-> "Bo", email |-> "b@c.d", group |-> "vip"]
      [] json = JsonUnclosed -> [name |-> "", email |-> "", group |-> "g"]
      [] OTHER -> [name |-> "", email |-> "", group |-> ""]

UpdateKeys == [name |-> KeyName, email |-> KeyEmail, group |-> KeyGroup]

\* C25: MT4_UpdateUser and MT4_DeleteUser on a connected session fetch the record
\* first; when UserRecordGet fails they return MT4_ERROR_INTERNAL without calling
\* UserRecordUpdate. Otherwise the record MT4_UpdateUser passes to
\* UserRecordUpdate is the fetched one in every member except name, email and
\* group, each replaced by the text's value when its key marker occurs with a
\* closing quote and unchanged when it does not; the record MT4_DeleteUser passes
\* is the fetched one with enable = 0.
C25_UpdateKeepsRecord ==
    [][(op' \in {"MT4_UpdateUser", "MT4_DeleteUser"})
        => /\ (\E o \in {"error", "throw"} : H("UserRecordGet", o) \in Range(calls'))
                => /\ result' = MT4_ERROR_INTERNAL
                   /\ Invocations(calls', "UserRecordUpdate") = 0
                   /\ sent' = <<>>
           /\ Invocations(calls', "UserRecordUpdate") > 0
                => /\ H("UserRecordGet", "RET_OK") \in Range(calls')
                   /\ Invocations(calls', "UserRecordUpdate") = 1
                   /\ Len(sent') = 1
                   /\ DOMAIN sent'[1] = DOMAIN Fetched(1)
           /\ (op' = "MT4_UpdateUser" /\ sent' # <<>>)
                => \A k \in DOMAIN Fetched(1) :
                     sent'[1][k] = IF k \in DOMAIN UpdateKeys
                                      /\ Closed(args'.jsonData, UpdateKeys[k])
                                   THEN Given(args'.jsonData)[k]
                                   ELSE Fetched(1)[k]
           /\ (op' = "MT4_DeleteUser" /\ sent' # <<>>)
                => \A k \in DOMAIN Fetched(1) :
                     sent'[1][k] = IF k = "enable" THEN 0 ELSE Fetched(1)[k]]_vars

\* An update with the text {"group":"g","name":"Al was accepted: the group
\* replaced, the unclosed name and every other member as fetched.
C25_Witness ==
    /\ op = "MT4_UpdateUser"
    /\ args.jsonData = JsonUnclosed
    /\ H("UserRecordGet", "RET_OK") \in Range(calls)
    /\ H("UserRecordUpdate", "RET_OK") \in Range(calls)
    /\ result = MT4_SUCCESS
    /\ sent # <<>>
    /\ sent[1].group = "g" /\ sent[1].group # Fetched(1).group
    /\ sent[1].name = Fetched(1).name
    /\ sent[1].login = args.login
    /\ sent[1].balance = Fetched(1).balance /\ sent[1].balance # 0

\* Every entry point but MT4_Initialize and MT4_Shutdown.
FrameOps == SessionOps \cup {"MT4_IsConnected", "MT4_GetLastError"}

\* C26: no entry point other than MT4_Initialize and MT4_Shutdown changes the
\* initialized flag, the provider handle or the capability handle, however it
\* ends; an MT4_Disconnect the remote accepts leaves the session initialized and
\* not connected; an MT4_Connect or MT4_Login that fails on an initialized session
\* leaves it initialized with both handles.
C26_OnlyLifecycleOpsChangeLifecycle ==
    [][(op' \in FrameOps)
        => /\ g_initialized' = g_initialized
           /\ g_pManager' = g_pManager
           /\ g_pFactory' = g_pFactory
           /\ (op' = "MT4_Disconnect" /\ H("Disconnect", "RET_OK") \in Range(calls'))
                => g_initialized' /\ g_pManager' /\ ~connected'
           /\ (/\ op' \in {"MT4_Connect", "MT4_Login"}
               /\ g_initialized /\ g_pManager
               /\ result' # MT4_SUCCESS)
                => g_initialized' /\ g_pManager' /\ g_pFactory' = g_pFactory]_vars

\* A disconnect the remote accepted has returned: the session is initialized,
\* holds both handles and is not connected.
C26_Witness ==
    /\ op = "MT4_Disconnect"
    /\ H("Disconnect", "RET_OK") \in Range(calls)
    /\ result = MT4_SUCCESS
    /\ g_initialized /\ g_pManager /\ g_pFactory
    /\ ~connected

\* C27: when MT4_OpenTrade or MT4_CreateUser returns a code other than
\* MT4_SUCCESS, MT4_ERROR_BUFFER_TOO_SMALL included, the remote accepted no
\* TradeTransaction and no UserRecordNew during the operation: the call was not
\* made or did not return RET_OK.
C27_FailureMeansNoEffect ==
    [][(/\ op' \in {"MT4_OpenTrade", "MT4_CreateUser"}
        /\ exit' = "returned"
        /\ result' # MT4_SUCCESS)
        => /\ H("TradeTransaction", "RET_OK") \notin Range(calls')
           /\ H("UserRecordNew", "RET_OK") \notin Range(calls')]_vars

====
